---------------------------- MODULE Spec2Model ----------------------------
(***************************************************************************)
(* qimgshrink: the per-file conversion protocol of the two engines         *)
(* (Converter: Pillow, in-process; Converter2: ImageMagick, external       *)
(* tool), their shared ConversionStats, and the caller that offers one     *)
(* discovered entry after another to convert().                            *)
(*                                                                         *)
(* One convert() call is a sequence of steps (pc).  Every step of the      *)
(* source that can fail for a reason outside the program (the encoder, the *)
(* move, chmod, chown) has its outcomes chosen nondeterministically.       *)
(***************************************************************************)
EXTENDS Integers, Sequences, FiniteSets, TLC

(* ------------------------------ bounds -------------------------------- *)
\* Largest pixel width/height of a file on disk.
MaxDim == 4
\* Largest max_size an engine is constructed with.
MaxSizeBound == 2
\* Largest byte size of a file (original or encoded).
MaxBytes == 2
\* Number of convert() calls made on one engine.
MaxCalls == 2
\* Number of entries replayed by the test-mode / live-mode comparison.
TwinCalls == 1
\* Number of convert() calls made on an engine that start-up has produced.
FactoryCalls == 1
\* Number of entries given to both engines when the two are compared.
PairCalls == 1
\* Number of images a run of the application discovers.
MaxImages == 2
\* Number of directory entries below the working directory.
MaxNodes == 3
\* Number of setter and load_from_file calls made on one Config.
ConfigOps == 2
\* Number of add_processed / add_skipped calls made on one ConversionStats.
StatsOps == 3

(* --------------------------- program constants ------------------------ *)
\* Config.__init__: default JPEG quality.
DefaultQuality == 97
\* Config.__init__: default maximum dimension.
DefaultMaxSize == 1920
\* Mode bits of a freshly created temporary file (tempfile: 0o600).
TmpMode == 384

VARIABLES
    engine,     \* the engine's configuration: kind, max_size, quality, test_mode
    stats,      \* the engine's ConversionStats
    pc,         \* position inside the current convert() call; "ended" when it
                \* has returned or raised, "idle" between calls
    file,       \* on-disk state of the target file of the current call
    pre,        \* on-disk state of that file when the call started
    entry,      \* the ImageFileInfo handed to the call (discovery snapshot)
    tmp,        \* the temporary file of the current call
    loc,        \* locals of the call: probed size, new size, size_before, size_after
    prestats,   \* the statistics when the call started
    steps,      \* the steps the current call has performed, in order
    result,     \* how the last call ended: returned a value or raised
    ncalls,     \* convert() calls completed on this engine
    nreturned,  \* convert() calls that returned (did not raise)
    twin,       \* bookkeeping of the test-mode / live-mode comparison
    fac,        \* start-up and create_converter: arguments, environment,
                \* position, engines attempted, probes run, errors collected
    cfg,        \* the Config object and the configuration file it loads
    cat,        \* FileFind: the directory tree and the scan over it
    pol,        \* the encoder settings and output format chosen for a file
    run         \* App.run / main: the discovered list, the position in it,
                \* what was printed, the exit code

\* The variables of the parts of the program outside the engines.
aux == <<cfg, cat, pol, run>>

vars == <<engine, stats, pc, file, pre, entry, tmp, loc, prestats, steps,
          result, ncalls, nreturned, twin, fac, aux>>

(* ------------------------------ the files ----------------------------- *)
\* The identity the program runs as: a file it creates belongs to it.
ProcOwnership == [owner |-> "admin", group |-> "administrators"]
\* Users and groups the passwd/group databases can resolve by name.
KnownNames == {"root", "admin", "wheel", "administrators"}
\* Who may own a file: a resolvable user, or an id without a passwd entry
\* (find_images then records str(uid) as the owner name).
Ownerships == {[owner |-> "root", group |-> "wheel"],
               [owner |-> "1001", group |-> "1001"]}
\* st_mode of a regular file: type bits 0o100000 plus permission bits
\* (0o644, 0o755, and 0o464: the owner may not write, the group may).
FileModes == {32768 + 420, 32768 + 493, 32768 + 308}

\* Whether the mode bits grant the owner class the access bit (0o400 read,
\* 0o200 write).
OwnerMay(mode, bit) == (mode \div bit) % 2 = 1

\* Every file the discovery can hand over.  An undecodable file has no
\* meaningful dimensions: they are fixed to 1x1.  out_size is the byte size
\* the encoder produces for the file's resized image (the encoder is a
\* function of its input; the size may exceed the original's).
FileSet ==
    {f \in [w : 1..MaxDim, h : 1..MaxDim, decodable : BOOLEAN,
            readable : BOOLEAN, writable : BOOLEAN,
            st_mode : FileModes, own : Ownerships, size : 1..MaxBytes,
            out_size : 1..MaxBytes, content : {"orig"}, mtime : {0}] :
        ~f.decodable => (f.w = 1 /\ f.h = 1)}

\* find_images: the ImageFileInfo of a file (path, permissions, owner,
\* group, size); there is no uid and no gid field.
EntryOf(p, f) ==
    [path |-> p,
     permissions |-> f.st_mode % 512,
     owner |-> f.own.owner,
     group |-> f.own.group,
     size |-> f.size]

NoEntry == [path |-> 0, permissions |-> 0, owner |-> "", group |-> "", size |-> 0]
NoFile == [w |-> 1, h |-> 1, decodable |-> FALSE, readable |-> FALSE,
           writable |-> FALSE, st_mode |-> 32768,
           own |-> [owner |-> "", group |-> ""], size |-> 0,
           out_size |-> 0, content |-> "none", mtime |-> 0]
NoTmp == [exists |-> FALSE, dir |-> "", st_mode |-> 0, size |-> 0,
          content |-> "none", w |-> 0, h |-> 0]
NoLoc == [width |-> 0, height |-> 0, new_width |-> 0, new_height |-> 0,
          size_before |-> 0, size_after |-> 0, fault |-> FALSE]
NoResult == [kind |-> "none", value |-> FALSE, exc |-> "", at |-> ""]

(* --------------------------- ConversionStats -------------------------- *)
ZeroStats == [processed_files |-> 0, skipped_files |-> 0,
              size_before |-> 0, size_after |-> 0]

add_processed(s, size_before, size_after) ==
    [s EXCEPT !.processed_files = @ + 1,
              !.size_before = @ + size_before,
              !.size_after = @ + size_after]

\* Faulty variant: the skip is not counted.
add_skipped_Lost(s) == s

add_skipped(s) == [s EXCEPT !.skipped_files = @ + 1]

(* ------------------------------ engines ------------------------------- *)
Kinds == {"Pillow", "ImageMagick"}

\* Converter.__init__ / Converter2.__init__: the configuration is stored as
\* given and the statistics start at zero.
Engines ==
    [kind : Kinds, max_size : 1..MaxSizeBound, quality : {DefaultQuality},
     test_mode : BOOLEAN]

Max(a, b) == IF a >= b THEN a ELSE b

NoTwin == [phase |-> 0, offered |-> <<>>, results |-> <<>>, saved |-> <<>>,
           savedstats |-> ZeroStats]
\* No start-up is modelled: the engine exists from the beginning.
NoFac == [pc |-> "none"]
\* No Config, no directory scan, no encoder choice and no App.run is
\* modelled: the engine is called directly.
NoCfg == [pc |-> "none"]
NoCat == [pc |-> "none"]
NoPol == [pc |-> "none"]
NoRun == [pc |-> "none"]
AuxIdle ==
    /\ cfg = NoCfg
    /\ cat = NoCat
    /\ pol = NoPol
    /\ run = NoRun

Init ==
    /\ engine \in Engines
    /\ stats = ZeroStats
    /\ pc = "idle"
    /\ file = NoFile
    /\ pre = NoFile
    /\ entry = NoEntry
    /\ tmp = NoTmp
    /\ loc = NoLoc
    /\ prestats = ZeroStats
    /\ steps = <<>>
    /\ result = NoResult
    /\ ncalls = 0
    /\ nreturned = 0
    /\ twin = NoTwin
    /\ fac = NoFac
    /\ AuxIdle

(* ----------------------- ending a convert() call ---------------------- *)
\* convert() returns v.
Return(v, at) ==
    /\ result' = [kind |-> "return", value |-> v, exc |-> "", at |-> at]
    /\ pc' = "ended"
    /\ ncalls' = ncalls + 1
    /\ nreturned' = nreturned + 1

\* convert() raises exception class exc, raised by step at.
Raise(exc, at) ==
    /\ result' = [kind |-> "raise", value |-> FALSE, exc |-> exc, at |-> at]
    /\ pc' = "ended"
    /\ ncalls' = ncalls + 1
    /\ nreturned' = nreturned

(* ------------------------------ the caller ---------------------------- *)
\* The caller hands the next entry to convert(): a file not offered before.
StartCall(f) ==
    /\ file' = f
    /\ pre' = f
    /\ entry' = EntryOf(ncalls + 1, f)
    /\ tmp' = NoTmp
    /\ loc' = NoLoc
    /\ prestats' = stats
    /\ steps' = <<>>
    /\ result' = NoResult
    /\ pc' = "check_read"
    /\ UNCHANGED <<engine, stats, ncalls, nreturned, fac, aux>>

Call ==
    /\ pc = "idle"
    /\ twin.phase = 0
    /\ ncalls < MaxCalls
    /\ \E f \in FileSet : StartCall(f)
    /\ UNCHANGED twin

\* The caller offers a file again that a non-test-mode call has replaced
\* (a later run over the same directory): the file is as that call left
\* it, its entry the old one or a freshly discovered one.
Recall ==
    /\ pc = "ended"
    /\ twin.phase = 0
    /\ ncalls < MaxCalls
    /\ result.kind = "return" /\ result.value = TRUE
    /\ ~engine.test_mode
    /\ \E e \in {entry, EntryOf(entry.path, file)} :
         /\ entry' = e
         /\ pre' = file
         /\ tmp' = NoTmp
         /\ loc' = NoLoc
         /\ prestats' = stats
         /\ steps' = <<>>
         /\ result' = NoResult
         /\ pc' = "check_read"
    /\ UNCHANGED <<engine, stats, file, ncalls, nreturned, twin, fac, aux>>

\* The caller's loop body after convert() has returned or raised: it
\* reports the outcome and goes on to the next entry.
NextEntry ==
    /\ pc = "ended"
    /\ twin.phase = 0
    /\ pc' = "idle"
    /\ file' = NoFile
    /\ pre' = NoFile
    /\ entry' = NoEntry
    /\ tmp' = NoTmp
    /\ loc' = NoLoc
    /\ steps' = <<>>
    /\ result' = NoResult
    /\ prestats' = stats
    /\ UNCHANGED <<engine, stats, ncalls, nreturned, twin, fac, aux>>

(* ---------------------------- access checks --------------------------- *)
\* os.access(file_path, os.R_OK)
CheckRead ==
    /\ pc = "check_read"
    /\ steps' = Append(steps, "check_read")
    /\ IF ~file.readable
         THEN Raise("PermissionError", "check_read")
         ELSE /\ pc' = "check_write"
              /\ UNCHANGED <<result, ncalls, nreturned>>
    /\ UNCHANGED <<engine, stats, file, pre, entry, tmp, loc, prestats, twin, fac, aux>>

\* Faulty variant: the write-access check is missing.
CheckWrite_Missing ==
    /\ pc = "check_write"
    /\ steps' = Append(steps, "check_write")
    /\ pc' = "probe"
    /\ UNCHANGED <<engine, stats, file, pre, entry, tmp, loc, prestats, twin, fac,
                   result, ncalls, nreturned, aux>>

\* os.access(file_path, os.W_OK)
CheckWrite ==
    /\ pc = "check_write"
    /\ steps' = Append(steps, "check_write")
    /\ IF ~file.writable
         THEN Raise("PermissionError", "check_write")
         ELSE /\ pc' = "probe"
              /\ UNCHANGED <<result, ncalls, nreturned>>
    /\ UNCHANGED <<engine, stats, file, pre, entry, tmp, loc, prestats, twin, fac, aux>>

(* --------------------------- dimension probe -------------------------- *)
\* Faulty variant of ProbeError (below): the failure of identify is passed
\* on as it is.  ProbeError is the exception class convert() raises when
\* the image cannot be read:
\* Converter re-raises the class Image.open raised; Converter2 turns a failed
\* identify into RuntimeError.
ProbeError_Unwrapped(kind) ==
    IF kind = "Pillow" THEN "UnidentifiedImageError" ELSE "CalledProcessError"

ProbeError(kind) ==
    IF kind = "Pillow" THEN "UnidentifiedImageError" ELSE "RuntimeError"

\* Converter: Image.open(file_path), im.size.
\* Converter2: _get_image_dimensions (identify -format "%w %h").
Probe ==
    /\ pc = "probe"
    /\ steps' = Append(steps, "probe")
    /\ IF ~file.decodable
         THEN /\ Raise(ProbeError(engine.kind), "probe")
              /\ UNCHANGED loc
         ELSE /\ loc' = [loc EXCEPT !.width = file.w, !.height = file.h]
              /\ pc' = "decide"
              /\ UNCHANGED <<result, ncalls, nreturned>>
    /\ UNCHANGED <<engine, stats, file, pre, entry, tmp, prestats, twin, fac, aux>>

(* ---------------------------- resize decision ------------------------- *)
\* Faulty variant: the boundary max_dimension = max_size is resized too.
ResizeNeeded_OffByOne(width, height, max_size) == Max(width, height) >= max_size

\* max_dimension <= self.max_size is the skip condition.
ResizeNeeded(width, height, max_size) == Max(width, height) > max_size

\* if max_dimension <= self.max_size: self.stats.add_skipped(); return False
Decide ==
    /\ pc = "decide"
    /\ steps' = Append(steps, "decide")
    /\ IF ~ResizeNeeded(loc.width, loc.height, engine.max_size)
         THEN /\ stats' = add_skipped(stats)
              /\ Return(FALSE, "decide")
         ELSE /\ pc' = IF engine.kind = "Pillow" THEN "resize" ELSE "mktemp"
              /\ UNCHANGED <<stats, result, ncalls, nreturned>>
    /\ UNCHANGED <<engine, file, pre, entry, tmp, loc, prestats, twin, fac, aux>>

\* Faulty variant: the shorter side is rounded to the nearest integer.
NewSize_Nearest(width, height, max_size) ==
    IF width > height
      THEN <<max_size, (2 * height * max_size + width) \div (2 * width)>>
      ELSE <<(2 * width * max_size + height) \div (2 * height), max_size>>

\* Faulty variant: the shorter side is rounded up.
NewSize_RoundUp(width, height, max_size) ==
    IF width > height
      THEN <<max_size, (height * max_size + width - 1) \div width>>
      ELSE <<(width * max_size + height - 1) \div height, max_size>>

\* Converter: the new dimensions, int() truncating the float quotient.
NewSize(width, height, max_size) ==
    IF width > height
      THEN <<max_size, (height * max_size) \div width>>
      ELSE <<(width * max_size) \div height, max_size>>

\* ImageMagick's -resize "MxM>": fit into the box keeping the aspect ratio,
\* each side rounded to the nearest pixel and never below one.
MagickSize(width, height, max_size) ==
    IF width > height
      THEN <<max_size, Max(1, (2 * height * max_size + width) \div (2 * width))>>
      ELSE <<Max(1, (2 * width * max_size + height) \div (2 * height)), max_size>>

\* Converter: im.resize((new_width, new_height), LANCZOS); Pillow rejects a
\* size with a side of zero pixels with ValueError.
Resize ==
    /\ pc = "resize"
    /\ engine.kind = "Pillow"
    /\ steps' = Append(steps, "resize")
    /\ LET n == NewSize(loc.width, loc.height, engine.max_size) IN
         /\ loc' = [loc EXCEPT !.new_width = n[1], !.new_height = n[2]]
         /\ IF n[1] <= 0 \/ n[2] <= 0
              THEN Raise("ValueError", "resize")
              ELSE /\ pc' = "mktemp"
                   /\ UNCHANGED <<result, ncalls, nreturned>>
    /\ UNCHANGED <<engine, stats, file, pre, entry, tmp, prestats, twin, fac, aux>>

(* ---------------------------- temporary file -------------------------- *)
\* Converter: tempfile.NamedTemporaryFile(delete=False) in the system's
\* temporary directory.  Converter2: tempfile.mkstemp(dir=file_path.parent).
TmpDir(kind) == IF kind = "Pillow" THEN "tmpdir" ELSE "target_dir"

\* Faulty variant: the replacement follows the creation of the temporary
\* file at once, without the encode.
MakeTemp_SkipsEncode ==
    /\ pc = "mktemp"
    /\ steps' = Append(steps, "mktemp")
    /\ tmp' = [exists |-> TRUE, dir |-> TmpDir(engine.kind), st_mode |-> TmpMode,
               size |-> 0, content |-> "empty", w |-> 0, h |-> 0]
    /\ pc' = "replace"
    /\ UNCHANGED <<engine, stats, file, pre, entry, loc, prestats, result,
                   ncalls, nreturned, twin, fac, aux>>

MakeTemp ==
    /\ pc = "mktemp"
    /\ steps' = Append(steps, "mktemp")
    /\ tmp' = [exists |-> TRUE, dir |-> TmpDir(engine.kind), st_mode |-> TmpMode,
               size |-> 0, content |-> "empty", w |-> 0, h |-> 0]
    /\ pc' = "encode"
    /\ UNCHANGED <<engine, stats, file, pre, entry, loc, prestats, result,
                   ncalls, nreturned, twin, fac, aux>>

\* Faulty variant: the except block leaves the temporary file behind.
CleanupTmp_Leak(t) == t

\* The except blocks around the encode/replace steps:
\* if tmp_path.exists(): tmp_path.unlink()
CleanupTmp(t) == IF t.exists THEN NoTmp ELSE t

\* The exception class convert() raises when the encode step fails:
\* Converter re-raises what resized.save raised; Converter2 turns the
\* CalledProcessError of the convert command into RuntimeError.
EncodeError(kind) == IF kind = "Pillow" THEN "OSError" ELSE "RuntimeError"

\* The size of the image the encode step writes.
OutSize(kind, l, max_size) ==
    IF kind = "Pillow" THEN <<l.new_width, l.new_height>>
    ELSE MagickSize(l.width, l.height, max_size)

\* Converter: resized.save(tmp_path, ...).
\* Converter2: subprocess.run(convert_cmd, check=True).
Encode ==
    /\ pc = "encode"
    /\ steps' = Append(steps, "encode")
    /\ \E ok \in BOOLEAN :
         IF ok
           THEN /\ LET d == OutSize(engine.kind, loc, engine.max_size) IN
                     tmp' = [tmp EXCEPT !.content = "encoded",
                                        !.size = file.out_size,
                                        !.w = d[1], !.h = d[2]]
                /\ pc' = "stat"
                /\ UNCHANGED <<loc, result, ncalls, nreturned>>
           ELSE /\ tmp' = CleanupTmp([tmp EXCEPT !.content = "partial"])
                /\ loc' = [loc EXCEPT !.fault = TRUE]
                /\ Raise(EncodeError(engine.kind), "encode")
    /\ UNCHANGED <<engine, stats, file, pre, entry, prestats, twin, fac, aux>>

\* Faulty variant: the test-mode branch is ignored.
ReplaceWanted_Always(e) == TRUE

\* size_before = image_info.size; size_after = tmp_path.stat().st_size;
\* then the branch on self.test_mode.
ReplaceWanted(e) == ~e.test_mode

Stat ==
    /\ pc = "stat"
    /\ steps' = Append(steps, "stat")
    /\ loc' = [loc EXCEPT !.size_before = entry.size, !.size_after = tmp.size]
    /\ pc' = IF ReplaceWanted(engine) THEN "replace" ELSE "unlink"
    /\ UNCHANGED <<engine, stats, file, pre, entry, tmp, prestats, result,
                   ncalls, nreturned, twin, fac, aux>>

\* Test mode: tmp_path.unlink()
UnlinkTmp ==
    /\ pc = "unlink"
    /\ steps' = Append(steps, "unlink")
    /\ tmp' = NoTmp
    /\ pc' = "add_processed"
    /\ UNCHANGED <<engine, stats, file, pre, entry, loc, prestats, result,
                   ncalls, nreturned, twin, fac, aux>>

(* ------------------------------ replacement --------------------------- *)
(* shutil.move(str(tmp_path), str(file_path)) is os.rename when source and *)
(* target are on one filesystem; otherwise it copies the source over the   *)
(* target in place (copy2: open the target for writing, write, copy mode   *)
(* and times) and unlinks the source.  Converter2's temporary file is in   *)
(* the target's directory, so its move is the rename; Converter's is in    *)
(* the system's temporary directory, which may be another filesystem.      *)

\* Faulty variant: the replaced file keeps the original's pixel size.
Renamed_StaleSize(f, t) ==
    [f EXCEPT !.content = "new", !.size = t.size,
              !.mtime = 1, !.st_mode = (@ - (@ % 512)) + t.st_mode,
              !.own = ProcOwnership,
              !.readable = OwnerMay(t.st_mode, 256),
              !.writable = OwnerMay(t.st_mode, 128)]

\* The target after the temporary file has been renamed onto it: the
\* temporary file's inode, owned by the process, with its mode bits.
Renamed(f, t) ==
    [f EXCEPT !.content = "new", !.w = t.w, !.h = t.h, !.size = t.size,
              !.mtime = 1, !.st_mode = (@ - (@ % 512)) + t.st_mode,
              !.own = ProcOwnership,
              !.readable = OwnerMay(t.st_mode, 256),
              !.writable = OwnerMay(t.st_mode, 128)]

\* The target after the temporary file has been copied over it: the
\* target's own inode (owner kept) with the copied content, mode and times.
Copied(f, t) ==
    [f EXCEPT !.content = "new", !.w = t.w, !.h = t.h, !.size = t.size,
              !.mtime = 1, !.st_mode = (@ - (@ % 512)) + t.st_mode]

\* The target while the copy is writing it: opened for writing, truncated.
Truncated(f) == [f EXCEPT !.content = "partial", !.size = 0, !.mtime = 1]

\* shutil.move, same filesystem: os.rename succeeds.
MoveRename ==
    /\ pc = "replace"
    /\ steps' = Append(steps, "replace")
    /\ file' = Renamed(file, tmp)
    /\ tmp' = NoTmp
    /\ pc' = "chmod"
    /\ UNCHANGED <<engine, stats, pre, entry, loc, prestats, result, ncalls,
                   nreturned, twin, fac, aux>>

\* shutil.move raises before the target is opened; the except block
\* removes the temporary file and re-raises.
MoveFail ==
    /\ pc = "replace"
    /\ steps' = Append(steps, "replace")
    /\ tmp' = CleanupTmp(tmp)
    /\ loc' = [loc EXCEPT !.fault = TRUE]
    /\ Raise("OSError", "replace")
    /\ UNCHANGED <<engine, stats, file, pre, entry, prestats, twin, fac, aux>>

\* shutil.move across filesystems (Converter only): the copy opens the
\* target for writing.
MoveCopyBegin ==
    /\ pc = "replace"
    /\ tmp.dir = "tmpdir"
    /\ steps' = Append(steps, "replace")
    /\ file' = Truncated(file)
    /\ pc' = "copying"
    /\ UNCHANGED <<engine, stats, pre, entry, tmp, loc, prestats, result,
                   ncalls, nreturned, twin, fac, aux>>

\* The copy completes and the source is unlinked.
MoveCopyEnd ==
    /\ pc = "copying"
    /\ file' = Copied(file, tmp)
    /\ tmp' = NoTmp
    /\ pc' = "chmod"
    /\ UNCHANGED <<engine, stats, pre, entry, loc, prestats, steps, result,
                   ncalls, nreturned, twin, fac, aux>>

\* The copy fails part-way (target filesystem full, I/O error); the except
\* block removes the temporary file and re-raises.
MoveCopyFail ==
    /\ pc = "copying"
    /\ tmp' = CleanupTmp(tmp)
    /\ loc' = [loc EXCEPT !.fault = TRUE]
    /\ Raise("OSError", "replace")
    /\ UNCHANGED <<engine, stats, file, pre, entry, prestats, steps, twin, fac, aux>>

\* os.chmod(file_path, image_info.permissions).  When the file belongs to
\* the process, the owner bits decide what os.access will answer for it.
Chmod(f, permissions) ==
    [f EXCEPT !.st_mode = (@ - (@ % 512)) + permissions,
              !.readable = IF f.own = ProcOwnership
                             THEN OwnerMay(permissions, 256) ELSE @,
              !.writable = IF f.own = ProcOwnership
                             THEN OwnerMay(permissions, 128) ELSE @]

RestorePermissions ==
    /\ pc = "chmod"
    /\ steps' = Append(steps, "chmod")
    /\ \E ok \in BOOLEAN :
         IF ok
           THEN /\ file' = Chmod(file, entry.permissions)
                /\ pc' = "chown"
                /\ UNCHANGED <<tmp, loc, result, ncalls, nreturned>>
           ELSE /\ tmp' = CleanupTmp(tmp)
                /\ loc' = [loc EXCEPT !.fault = TRUE]
                /\ Raise("PermissionError", "chmod")
                /\ UNCHANGED file
    /\ UNCHANGED <<engine, stats, pre, entry, prestats, twin, fac, aux>>

\* The exception classes the ownership step catches and ignores:
\* Converter: except (KeyError, PermissionError); Converter2: except
\* PermissionError.
Swallowed(kind, exc) ==
    IF kind = "Pillow" THEN exc \in {"KeyError", "PermissionError"}
    ELSE exc = "PermissionError"

\* What the ownership step does before it calls os.chown:
\* Converter looks the entry's owner and group names up (KeyError when one
\* is unknown); Converter2 reads image_info.uid and image_info.gid
\* (AttributeError when the entry has no such field).
OwnerLookup(kind, e) ==
    IF kind = "Pillow"
      THEN IF e.owner \in KnownNames /\ e.group \in KnownNames
             THEN "ok" ELSE "KeyError"
      ELSE IF {"uid", "gid"} \subseteq DOMAIN e THEN "ok" ELSE "AttributeError"

\* os.chown(file_path, uid, gid) done: only a privileged process can give
\* a file to another user, and a privileged process has every access.
Chown(f, owner, group) ==
    [f EXCEPT !.own = [owner |-> owner, group |-> group],
              !.readable = TRUE, !.writable = TRUE]

\* How os.chown can end: done, refused (EPERM), or another OS error.
ChownOutcomes == {"ok", "PermissionError", "OSError"}

\* The try block around os.chown.
RestoreOwner ==
    /\ pc = "chown"
    /\ steps' = Append(steps, "chown")
    /\ \E o \in ChownOutcomes :
         LET exc == IF OwnerLookup(engine.kind, entry) # "ok"
                      THEN OwnerLookup(engine.kind, entry) ELSE o
         IN
         /\ loc' = [loc EXCEPT !.fault = @ \/ (exc \in {"PermissionError", "OSError"})]
         /\ IF exc = "ok"
              THEN /\ file' = Chown(file, entry.owner, entry.group)
                   /\ pc' = "add_processed"
                   /\ UNCHANGED <<tmp, result, ncalls, nreturned>>
              ELSE IF Swallowed(engine.kind, exc)
                THEN /\ pc' = "add_processed"
                     /\ UNCHANGED <<file, tmp, result, ncalls, nreturned>>
                ELSE /\ tmp' = CleanupTmp(tmp)
                     /\ Raise(exc, "chown")
                     /\ UNCHANGED file
    /\ UNCHANGED <<engine, stats, pre, entry, prestats, twin, fac, aux>>

\* Faulty variant: the file is counted and then the call fails.
AddProcessed_ThenFails ==
    /\ pc = "add_processed"
    /\ steps' = Append(steps, "add_processed")
    /\ stats' = add_processed(stats, loc.size_before, loc.size_after)
    /\ Raise("OSError", "add_processed")
    /\ UNCHANGED <<engine, file, pre, entry, tmp, loc, prestats, twin, fac, aux>>

\* self.stats.add_processed(size_before, size_after); return True
AddProcessed ==
    /\ pc = "add_processed"
    /\ steps' = Append(steps, "add_processed")
    /\ stats' = add_processed(stats, loc.size_before, loc.size_after)
    /\ Return(TRUE, "add_processed")
    /\ UNCHANGED <<engine, file, pre, entry, tmp, loc, prestats, twin, fac, aux>>

(* -------------- the same entries in test mode, then live -------------- *)
(* A second specification: an engine in test mode is offered TwinCalls     *)
(* fresh entries; then an identically configured engine with test_mode     *)
(* False is offered the same entries, the files being as they were.        *)

\* The caller keeps what the call did: returned a value, or raised.
TwinCollect ==
    /\ twin.phase \in {1, 2}
    /\ pc = "ended"
    /\ Len(twin.results) < ncalls
    /\ twin' = [twin EXCEPT !.results =
                   Append(@, [kind |-> result.kind, value |-> result.value,
                              fault |-> loc.fault])]
    /\ pc' = "idle"
    /\ file' = NoFile
    /\ pre' = NoFile
    /\ entry' = NoEntry
    /\ tmp' = NoTmp
    /\ loc' = NoLoc
    /\ steps' = <<>>
    /\ result' = NoResult
    /\ prestats' = stats
    /\ UNCHANGED <<engine, stats, ncalls, nreturned, fac, aux>>

TwinCall ==
    /\ twin.phase = 1
    /\ pc = "idle"
    /\ ncalls < TwinCalls
    /\ Len(twin.results) = ncalls
    /\ \E f \in FileSet :
         /\ StartCall(f)
         /\ twin' = [twin EXCEPT !.offered = Append(@, f)]

\* The second engine: Converter(max_size, quality, test_mode=False), or
\* Converter2 likewise, with statistics of its own.
TwinRestart ==
    /\ twin.phase = 1
    /\ pc = "idle"
    /\ ncalls = TwinCalls
    /\ Len(twin.results) = ncalls
    /\ twin' = [twin EXCEPT !.phase = 2, !.saved = twin.results,
                            !.savedstats = stats, !.results = <<>>]
    /\ engine' = [engine EXCEPT !.test_mode = FALSE]
    /\ stats' = ZeroStats
    /\ ncalls' = 0
    /\ nreturned' = 0
    /\ prestats' = ZeroStats
    /\ UNCHANGED <<pc, file, pre, entry, tmp, loc, steps, result, fac, aux>>

TwinReplay ==
    /\ twin.phase = 2
    /\ pc = "idle"
    /\ ncalls < Len(twin.offered)
    /\ Len(twin.results) = ncalls
    /\ StartCall(twin.offered[ncalls + 1])
    /\ UNCHANGED twin

TwinInit ==
    /\ Init
    /\ engine.test_mode

TwinStart ==
    /\ twin.phase = 0
    /\ pc = "idle"
    /\ ncalls = 0
    /\ twin' = [twin EXCEPT !.phase = 1]
    /\ UNCHANGED <<engine, stats, pc, file, pre, entry, tmp, loc, prestats,
                   steps, result, ncalls, nreturned, fac, aux>>

\* One step of a convert() call.
Step ==
    \/ CheckRead
    \/ CheckWrite
    \/ Probe
    \/ Decide
    \/ Resize
    \/ MakeTemp
    \/ Encode
    \/ Stat
    \/ UnlinkTmp
    \/ MoveRename
    \/ MoveFail
    \/ MoveCopyBegin
    \/ MoveCopyEnd
    \/ MoveCopyFail
    \/ RestorePermissions
    \/ RestoreOwner
    \/ AddProcessed

Next ==
    \/ Call
    \/ Step
    \/ NextEntry
    \/ Recall

Spec == Init /\ [][Next]_vars

TwinNext ==
    \/ TwinStart
    \/ TwinCall
    \/ TwinCollect
    \/ TwinRestart
    \/ TwinReplay
    \/ Step

SpecTwin == TwinInit /\ [][TwinNext]_vars

(* ------------------- the two engines on the same input ----------------- *)
(* A further specification: PairCalls entries go through a Converter, then *)
(* the same entries, from the same initial files, through a Converter2     *)
(* with the same max_size, quality and test_mode.                          *)

PairInit ==
    /\ Init
    /\ engine.kind = "Pillow"

PairStart ==
    /\ twin.phase = 0
    /\ pc = "idle"
    /\ ncalls = 0
    /\ twin' = [twin EXCEPT !.phase = 3]
    /\ UNCHANGED <<engine, stats, pc, file, pre, entry, tmp, loc, prestats,
                   steps, result, ncalls, nreturned, fac, aux>>

PairCall ==
    /\ twin.phase = 3
    /\ pc = "idle"
    /\ ncalls < PairCalls
    /\ Len(twin.results) = ncalls
    /\ \E f \in FileSet :
         /\ StartCall(f)
         /\ twin' = [twin EXCEPT !.offered = Append(@, f)]

\* What the caller can observe of a finished call: return or raise, the
\* value or exception class, the statistics and the file.
PairCollect ==
    /\ twin.phase \in {3, 4}
    /\ pc = "ended"
    /\ Len(twin.results) < ncalls
    /\ twin' = [twin EXCEPT !.results =
                   Append(@, [kind |-> result.kind, value |-> result.value,
                              exc |-> result.exc, stats |-> stats,
                              file |-> file, fault |-> loc.fault])]
    /\ pc' = "idle"
    /\ file' = NoFile
    /\ pre' = NoFile
    /\ entry' = NoEntry
    /\ tmp' = NoTmp
    /\ loc' = NoLoc
    /\ steps' = <<>>
    /\ result' = NoResult
    /\ prestats' = stats
    /\ UNCHANGED <<engine, stats, ncalls, nreturned, fac, aux>>

\* The second engine: Converter2(max_size, quality, test_mode) with
\* statistics of its own.
PairSwitch ==
    /\ twin.phase = 3
    /\ pc = "idle"
    /\ ncalls = PairCalls
    /\ Len(twin.results) = ncalls
    /\ twin' = [twin EXCEPT !.phase = 4, !.saved = twin.results,
                            !.savedstats = stats, !.results = <<>>]
    /\ engine' = [engine EXCEPT !.kind = "ImageMagick"]
    /\ stats' = ZeroStats
    /\ ncalls' = 0
    /\ nreturned' = 0
    /\ prestats' = ZeroStats
    /\ UNCHANGED <<pc, file, pre, entry, tmp, loc, steps, result, fac, aux>>

PairReplay ==
    /\ twin.phase = 4
    /\ pc = "idle"
    /\ ncalls < Len(twin.offered)
    /\ Len(twin.results) = ncalls
    /\ StartCall(twin.offered[ncalls + 1])
    /\ UNCHANGED twin

PairNext ==
    \/ PairStart
    \/ PairCall
    \/ PairCollect
    \/ PairSwitch
    \/ PairReplay
    \/ Step

SpecPair == PairInit /\ [][PairNext]_vars

(* ------------------- start-up and create_converter -------------------- *)
(* A third specification: the modules are imported, then an engine is      *)
(* obtained, either by a caller of create_converter() or by App.run(),     *)
(* which constructs Converter itself; the engine obtained is then offered  *)
(* FactoryCalls entries.                                                   *)

\* How the system answers "<tool> -version": the tool runs and exits 0, it
\* runs and exits non-zero, or it is not found (FileNotFoundError).
ToolStates == {"ok", "nonzero", "missing"}

\* What is installed: the PIL package, ImageMagick's convert and identify.
Environments == [pil : BOOLEAN, convert : ToolStates, identify : ToolStates]

\* create_converter(max_size, quality, test_mode, prefer_imagemagick); App
\* passes the first three, taken from its Config, to Converter.
FactoryArgs ==
    [max_size : 1..MaxSizeBound, quality : {DefaultQuality},
     test_mode : BOOLEAN, prefer_imagemagick : BOOLEAN]

\* Who asks for the engine: a caller of create_converter, or App.run.
EntryPoints == {"factory", "app"}

\* No engine has been constructed.
NoEngine == [kind |-> "none", max_size |-> 0, quality |-> 0, test_mode |-> FALSE]

\* The entries offered to an engine start-up has produced: accessible files
\* of every pixel size (access, modes and owners are the subject of Spec).
FactoryFiles ==
    {f \in FileSet : /\ f.readable /\ f.writable
                     /\ f.st_mode = 32768 + 420
                     /\ f.own.owner = "root"
                     /\ f.size = MaxBytes /\ f.out_size = 1}

FactoryInit ==
    /\ engine = NoEngine
    /\ stats = ZeroStats
    /\ pc = "boot"
    /\ file = NoFile
    /\ pre = NoFile
    /\ entry = NoEntry
    /\ tmp = NoTmp
    /\ loc = NoLoc
    /\ prestats = ZeroStats
    /\ steps = <<>>
    /\ result = NoResult
    /\ ncalls = 0
    /\ nreturned = 0
    /\ twin = NoTwin
    /\ AuxIdle
    /\ fac \in [pc : {"start"}, via : EntryPoints, args : FactoryArgs,
                env : Environments, slot : {1}, attempts : {<<>>},
                probes : {<<>>}, errors : {<<>>}, exc : {""}]

\* Everything but the engine, its statistics, pc and fac.
callstate == <<file, pre, entry, tmp, loc, prestats, steps, result, ncalls,
               nreturned, twin, aux>>

\* Importing qimgshrink.main, qimgshrink.converter_factory or
\* qimgshrink.converter2 imports qimgshrink.converter, whose first
\* statement about images is "import PIL.Image as Image".
ImportModules ==
    /\ fac.pc = "start"
    /\ fac' = IF fac.env.pil
                THEN [fac EXCEPT !.pc = "loaded"]
                ELSE [fac EXCEPT !.pc = "fatal", !.exc = "ImportError"]
    /\ UNCHANGED <<engine, stats, pc, callstate>>

\* Converter.__init__ and the second half of Converter2.__init__: the
\* configuration is stored as given, with fresh statistics.
NewEngine_LiveOnly(kind, a) ==
    [kind |-> kind, max_size |-> a.max_size, quality |-> a.quality,
     test_mode |-> FALSE]

NewEngine(kind, a) ==
    [kind |-> kind, max_size |-> a.max_size, quality |-> a.quality,
     test_mode |-> a.test_mode]

\* App.run: converter = Converter(max_size=..., quality=..., test_mode=...)
AppInit ==
    /\ fac.pc = "loaded"
    /\ fac.via = "app"
    /\ engine' = NewEngine("Pillow", fac.args)
    /\ stats' = ZeroStats
    /\ pc' = "idle"
    /\ fac' = [fac EXCEPT !.pc = "done"]
    /\ UNCHANGED callstate

\* create_converter: the order of attempts.
FirstChoice(prefer_imagemagick) ==
    IF prefer_imagemagick THEN "ImageMagick" ELSE "Pillow"

\* Faulty variant: the fallback is the first choice again.
SecondChoice_Retry(prefer_imagemagick) ==
    IF prefer_imagemagick THEN "ImageMagick" ELSE "Pillow"

SecondChoice(prefer_imagemagick) ==
    IF prefer_imagemagick THEN "Pillow" ELSE "ImageMagick"

\* The engine the factory is about to construct.
Choice(f) ==
    IF f.slot = 1 THEN FirstChoice(f.args.prefer_imagemagick)
    ELSE SecondChoice(f.args.prefer_imagemagick)

\* except (ImportError, RuntimeError)
Recognized(exc) == exc \in {"ImportError", "RuntimeError"}

\* What create_converter does when the construction of engine name raised
\* exc: a recognized error is noted and, after the first choice, the second
\* choice is tried; after the second, RuntimeError is raised with both
\* notes in the order they were made.  Any other exception propagates.
Except(f, name, exc) ==
    IF ~Recognized(exc)
      THEN [f EXCEPT !.pc = "raised", !.exc = exc]
      ELSE LET g == [f EXCEPT !.errors = Append(@, [engine |-> name, cause |-> exc])]
           IN  IF f.slot = 1
                 THEN [g EXCEPT !.slot = 2, !.pc = "attempt"]
                 ELSE [g EXCEPT !.pc = "raised", !.exc = "RuntimeError"]

\* create_converter is called.
FactoryBegin ==
    /\ fac.pc = "loaded"
    /\ fac.via = "factory"
    /\ fac' = [fac EXCEPT !.pc = "attempt", !.slot = 1, !.errors = <<>>]
    /\ UNCHANGED <<engine, stats, pc, callstate>>

\* converter = Converter(max_size, quality, test_mode); return converter
ConstructPillow ==
    /\ fac.pc = "attempt"
    /\ Choice(fac) = "Pillow"
    /\ engine' = NewEngine("Pillow", fac.args)
    /\ stats' = ZeroStats
    /\ pc' = "idle"
    /\ fac' = [fac EXCEPT !.attempts = Append(@, "Pillow"), !.pc = "done"]
    /\ UNCHANGED callstate

\* converter = Converter2(max_size, quality, test_mode): __init__ begins
\* with self._check_imagemagick().
ConstructMagick ==
    /\ fac.pc = "attempt"
    /\ Choice(fac) = "ImageMagick"
    /\ fac' = [fac EXCEPT !.attempts = Append(@, "ImageMagick"),
                          !.pc = "probe_convert"]
    /\ UNCHANGED <<engine, stats, pc, callstate>>

\* Faulty variant: a non-zero exit counts as not found.
ToolFound_ExitZero(t) == t = "ok"

\* subprocess.run([tool, "-version"], check=False) inside
\* try ... except FileNotFoundError: the exit status is not looked at.
ToolFound(t) == t # "missing"

\* _check_imagemagick: subprocess.run(["convert", "-version"], ...)
ProbeConvert ==
    /\ fac.pc = "probe_convert"
    /\ LET g == [fac EXCEPT !.probes = Append(@, "convert")] IN
         fac' = IF ToolFound(fac.env.convert)
                  THEN [g EXCEPT !.pc = "probe_identify"]
                  ELSE Except(g, "ImageMagick", "RuntimeError")
    /\ UNCHANGED <<engine, stats, pc, callstate>>

\* _check_imagemagick: subprocess.run(["identify", "-version"], ...)
ProbeIdentify ==
    /\ fac.pc = "probe_identify"
    /\ LET g == [fac EXCEPT !.probes = Append(@, "identify")] IN
         fac' = IF ToolFound(fac.env.identify)
                  THEN [g EXCEPT !.pc = "init"]
                  ELSE Except(g, "ImageMagick", "RuntimeError")
    /\ UNCHANGED <<engine, stats, pc, callstate>>

\* Converter2.__init__ after the probe: the four _set_data calls; the
\* factory returns the engine.
InitMagick ==
    /\ fac.pc = "init"
    /\ engine' = NewEngine("ImageMagick", fac.args)
    /\ stats' = ZeroStats
    /\ pc' = "idle"
    /\ fac' = [fac EXCEPT !.pc = "done"]
    /\ UNCHANGED callstate

\* The engine obtained is offered an entry.
FactoryCall ==
    /\ fac.pc = "done"
    /\ pc = "idle"
    /\ ncalls < FactoryCalls
    /\ \E f \in FactoryFiles : StartCall(f)
    /\ UNCHANGED twin

FactoryNext ==
    \/ ImportModules
    \/ AppInit
    \/ FactoryBegin
    \/ ConstructPillow
    \/ ConstructMagick
    \/ ProbeConvert
    \/ ProbeIdentify
    \/ InitMagick
    \/ FactoryCall
    \/ Step
    \/ NextEntry

SpecFactory == FactoryInit /\ [][FactoryNext]_vars


(* ------------------------------ App.run ------------------------------- *)
(* A specification of one run of the application, from main() to the exit  *)
(* of the process: the configuration has loaded and find_images has        *)
(* returned run.images, sorted by path (image i has the i-th smallest      *)
(* path); the engine is the Converter that App.run constructs.             *)

\* The files of a run: small or oversized, readable or not, decodable or
\* not.
RunFiles ==
    {f \in FileSet : /\ f.w = f.h /\ f.w \in {1, MaxDim}
                     /\ f.writable
                     /\ f.st_mode = 32768 + 420
                     /\ f.own.owner = "root"
                     /\ f.size = 1 /\ f.out_size = 1}

RunLists(n) == [1..n -> RunFiles]

RunInit ==
    /\ engine = NoEngine
    /\ stats = ZeroStats
    /\ pc = "boot"
    /\ file = NoFile
    /\ pre = NoFile
    /\ entry = NoEntry
    /\ tmp = NoTmp
    /\ loc = NoLoc
    /\ prestats = ZeroStats
    /\ steps = <<>>
    /\ result = NoResult
    /\ ncalls = 0
    /\ nreturned = 0
    /\ twin = NoTwin
    /\ fac = NoFac
    /\ cfg = NoCfg
    /\ cat = NoCat
    /\ pol = NoPol
    /\ run \in [pc : {"start"}, test : BOOLEAN, max_size : 1..MaxSizeBound,
                images : UNION {RunLists(n) : n \in 0..MaxImages}, idx : {0}, offered : {<<>>},
                printed : {<<>>}, report : {FALSE}, exit : {-1}]

\* Everything but run, for the statements of App.run outside convert().
runframe == <<stats, file, pre, entry, tmp, loc, prestats, steps, result,
              ncalls, nreturned, twin, fac, cfg, cat, pol>>

\* App.run up to the loop: without images it prints a message and
\* returns; otherwise it constructs the Converter from the configuration.
RunStart ==
    /\ run.pc = "start"
    /\ IF run.images = <<>>
         THEN /\ run' = [run EXCEPT !.pc = "returned",
                                    !.printed = Append(@, "no images")]
              /\ UNCHANGED <<engine, pc>>
         ELSE /\ run' = [run EXCEPT !.pc = "loop", !.idx = 1,
                                    !.printed = Append(@, "found")]
              /\ engine' = [kind |-> "Pillow", max_size |-> run.max_size,
                            quality |-> DefaultQuality, test_mode |-> run.test]
              /\ pc' = "idle"
    /\ UNCHANGED runframe

\* for img_info in images: converter.convert(img_info)
RunOffer ==
    /\ run.pc = "loop"
    /\ pc = "idle"
    /\ run.idx <= Len(run.images)
    /\ run' = [run EXCEPT !.pc = "call", !.offered = Append(@, run.idx)]
    /\ file' = run.images[run.idx]
    /\ pre' = run.images[run.idx]
    /\ entry' = EntryOf(run.idx, run.images[run.idx])
    /\ tmp' = NoTmp
    /\ loc' = NoLoc
    /\ prestats' = stats
    /\ steps' = <<>>
    /\ result' = NoResult
    /\ pc' = "check_read"
    /\ UNCHANGED <<engine, stats, ncalls, nreturned, twin, fac, cfg, cat, pol>>

\* The line the loop body prints for the call that has ended.
OutcomeLine ==
    IF result.kind = "return"
      THEN (IF result.value
              THEN (IF run.test THEN "would process" ELSE "processed")
              ELSE "skipped")
    ELSE IF result.exc = "PermissionError" THEN "permission denied"
    ELSE "error"

\* Faulty variant: an exception other than PermissionError leaves the
\* loop and ends the process.
RunHandle_Uncaught ==
    /\ run.pc = "call"
    /\ pc = "ended"
    /\ run' = IF result.kind = "raise" /\ result.exc # "PermissionError"
                THEN [run EXCEPT !.pc = "exited", !.exit = 1]
                ELSE [run EXCEPT !.pc = "loop", !.idx = @ + 1,
                                 !.printed = Append(@, OutcomeLine)]
    /\ pc' = "idle"
    /\ file' = NoFile
    /\ pre' = NoFile
    /\ entry' = NoEntry
    /\ tmp' = NoTmp
    /\ loc' = NoLoc
    /\ steps' = <<>>
    /\ result' = NoResult
    /\ prestats' = stats
    /\ UNCHANGED <<engine, stats, ncalls, nreturned, twin, fac, cfg, cat, pol>>

\* The rest of the loop body: the outcome is printed, whether convert
\* returned or raised, and the loop goes on.
RunHandle ==
    /\ run.pc = "call"
    /\ pc = "ended"
    /\ run' = [run EXCEPT !.pc = "loop", !.idx = @ + 1,
                          !.printed = Append(@, OutcomeLine)]
    /\ pc' = "idle"
    /\ file' = NoFile
    /\ pre' = NoFile
    /\ entry' = NoEntry
    /\ tmp' = NoTmp
    /\ loc' = NoLoc
    /\ steps' = <<>>
    /\ result' = NoResult
    /\ prestats' = stats
    /\ UNCHANGED <<engine, stats, ncalls, nreturned, twin, fac, cfg, cat, pol>>

\* converter.print_report(), after the loop.
RunReport ==
    /\ run.pc = "loop"
    /\ pc = "idle"
    /\ run.idx > Len(run.images)
    /\ run' = [run EXCEPT !.pc = "reported", !.report = TRUE,
                          !.printed = Append(@, "report")]
    /\ UNCHANGED <<engine, pc, runframe>>

\* main: return 0, and sys.exit(main()).
RunExit ==
    /\ run.pc \in {"returned", "reported"}
    /\ run' = [run EXCEPT !.pc = "exited", !.exit = 0]
    /\ UNCHANGED <<engine, pc, runframe>>

RunNext ==
    \/ RunStart
    \/ RunOffer
    \/ Step
    \/ RunHandle
    \/ RunReport
    \/ RunExit

\* Every statement of the run is executed once it is reached: nothing in
\* App.run or convert() waits.
SpecRun == RunInit /\ [][RunNext]_vars /\ WF_vars(RunNext)

(* ------------------------------ FileFind ------------------------------ *)
(* A specification of find_images: the working directory is missing, a     *)
(* file, or a directory holding up to MaxNodes entries.  Entry i has the   *)
(* i-th smallest path; its parent is the working directory (0) or an       *)
(* entry that is a directory.  A "link" is a symbolic link to a regular    *)
(* file.                                                                   *)

\* FileFind.SUPPORTED_EXTENSIONS
SUPPORTED_EXTENSIONS == {".jpg", ".jpeg", ".bmp", ".tiff", ".tif", ".png"}

\* Suffixes of the names in the tree.
NodeSuffixes == {".jpg", ".PNG", ".txt"}

\* file_path.suffix.lower()
lower(suffix) ==
    CASE suffix = ".PNG" -> ".png"
      [] suffix = ".JPG" -> ".jpg"
      [] OTHER -> suffix

\* What stat() reports for an entry: 0o100644 or 0o104755 (set-uid) for a
\* regular file or a link to one, 0o040755 for a directory.
NodeSet ==
    [kind : {"file"}, suffix : NodeSuffixes,
     st_mode : {32768 + 420, 32768 + 2048 + 493},
     own : {ProcOwnership}, size : {1}, parent : 0..(MaxNodes - 1)]
    \cup [kind : {"link"}, suffix : NodeSuffixes, st_mode : {32768 + 420},
          own : {ProcOwnership}, size : {1}, parent : 0..(MaxNodes - 1)]
    \cup [kind : {"dir"}, suffix : NodeSuffixes, st_mode : {16384 + 493},
          own : {ProcOwnership}, size : {1}, parent : 0..(MaxNodes - 1)]

\* A tree: every parent is an earlier entry and a directory.
IsTree(t) ==
    \A i \in DOMAIN t :
       IF t[i].parent = 0 THEN TRUE
       ELSE IF t[i].parent >= i THEN FALSE
       ELSE t[t[i].parent].kind = "dir"

\* Faulty variant: every entry counts as a file.
is_file_AnyEntry(node) == node.kind \in {"file", "link", "dir"}

\* Path.is_file(): true for a regular file and for a symbolic link that
\* leads to one.
is_file(node) == node.kind \in {"file", "link"}

\* sorted(image_files, key=lambda x: x.path)
RECURSIVE InsertByPath(_, _)
InsertByPath(e, s) ==
    IF s = <<>> THEN <<e>>
    ELSE IF e.path < Head(s).path THEN <<e>> \o s
    ELSE <<Head(s)>> \o InsertByPath(e, Tail(s))

RECURSIVE SortedByPath(_)
SortedByPath(s) ==
    IF s = <<>> THEN <<>>
    ELSE InsertByPath(s[Len(s)], SortedByPath(SubSeq(s, 1, Len(s) - 1)))

\* The loop over work_path.rglob("*"), which yields the entries in the
\* order given by seq: the ImageFileInfo objects appended.
RECURSIVE Collect(_, _)
Collect(tree, seq) ==
    IF seq = <<>> THEN <<>>
    ELSE LET i == Head(seq) IN
         (IF is_file(tree[i]) /\ lower(tree[i].suffix) \in SUPPORTED_EXTENSIONS
            THEN <<EntryOf(i, tree[i])>> ELSE <<>>)
         \o Collect(tree, Tail(seq))

FindInit ==
    /\ engine = NoEngine
    /\ stats = ZeroStats
    /\ pc = "boot"
    /\ file = NoFile
    /\ pre = NoFile
    /\ entry = NoEntry
    /\ tmp = NoTmp
    /\ loc = NoLoc
    /\ prestats = ZeroStats
    /\ steps = <<>>
    /\ result = NoResult
    /\ ncalls = 0
    /\ nreturned = 0
    /\ twin = NoTwin
    /\ fac = NoFac
    /\ cfg = NoCfg
    /\ \/ \E n \in 0..MaxNodes : \E t \in [1..n -> NodeSet] :
             /\ IsTree(t)
             /\ cat = [pc |-> "start", root |-> "dir", tree |-> t,
                       image_files |-> <<>>, returned |-> <<>>, exc |-> ""]
       \/ \E r \in {"missing", "file"} :
             cat = [pc |-> "start", root |-> r, tree |-> <<>>,
                    image_files |-> <<>>, returned |-> <<>>, exc |-> ""]
    /\ pol = NoPol
    /\ run = NoRun

\* Everything but cat.
noncat == <<engine, stats, pc, file, pre, entry, tmp, loc, prestats, steps,
            result, ncalls, nreturned, twin, fac, cfg, pol, run>>

\* find_images: the two checks of the working directory.
CheckRoot ==
    /\ cat.pc = "start"
    /\ cat' = CASE cat.root = "missing" ->
                     [cat EXCEPT !.pc = "raised", !.exc = "FileNotFoundError"]
                [] cat.root = "file" ->
                     [cat EXCEPT !.pc = "raised", !.exc = "NotADirectoryError"]
                [] cat.root = "dir" -> [cat EXCEPT !.pc = "scan"]
    /\ UNCHANGED noncat

\* find_images: the scan, in the order the directory listing gives.
Scan ==
    /\ cat.pc = "scan"
    /\ \E order \in Permutations(DOMAIN cat.tree) :
         cat' = [cat EXCEPT
                   !.pc = "scanned",
                   !.image_files =
                       Collect(cat.tree, [i \in DOMAIN cat.tree |-> order[i]])]
    /\ UNCHANGED noncat

\* find_images: return sorted(image_files, key=path).
SortReturn ==
    /\ cat.pc = "scanned"
    /\ cat' = [cat EXCEPT !.pc = "returned",
                          !.returned = SortedByPath(cat.image_files)]
    /\ UNCHANGED noncat

FindNext ==
    \/ CheckRoot
    \/ Scan
    \/ SortReturn

SpecFind == FindInit /\ [][FindNext]_vars

(* --------------------------- encoder settings -------------------------- *)
(* A specification of the choice of encoder settings and output format:    *)
(* one oversized file, given by the format of its content and the suffix   *)
(* of its name, goes through the encode step of each engine.               *)

\* What the content of a file with a supported suffix may decode as.
ContentFormats == {"JPEG", "PNG", "BMP", "TIFF", "GIF"}
\* Suffixes that find_images accepts, as written in the file name.
Suffixes == {".jpg", ".JPG", ".jpeg", ".Jpeg", ".png", ".PNG", ".bmp",
             ".tif", ".tiff", ".TIFF"}

\* file_path.suffix.lower().lstrip(".")
LowerStripped(suffix) ==
    CASE suffix \in {".jpg", ".JPG"} -> "jpg"
      [] suffix \in {".jpeg", ".Jpeg"} -> "jpeg"
      [] suffix \in {".png", ".PNG"} -> "png"
      [] suffix = ".bmp" -> "bmp"
      [] suffix = ".tif" -> "tif"
      [] suffix \in {".tiff", ".TIFF"} -> "tiff"

\* The format ImageMagick writes for an output file name with this suffix.
FormatOfSuffix(suffix) ==
    CASE LowerStripped(suffix) \in {"jpg", "jpeg"} -> "JPEG"
      [] LowerStripped(suffix) = "png" -> "PNG"
      [] LowerStripped(suffix) = "bmp" -> "BMP"
      [] LowerStripped(suffix) \in {"tif", "tiff"} -> "TIFF"

NoChoice == [class |-> "none", quality |-> 0, level |-> 0, out |-> ""]

\* Converter.convert: the settings follow the decoded format, and the
\* output is saved in the decoded format.
PillowChoice(content, quality) ==
    IF content \in {"JPEG", "JPG"}
      THEN [class |-> "jpeg", quality |-> quality, level |-> 0, out |-> "JPEG"]
    ELSE IF content = "PNG"
      THEN [class |-> "png", quality |-> 0, level |-> 9, out |-> "PNG"]
    ELSE [class |-> "other", quality |-> 0, level |-> 0, out |-> content]

\* Converter2.convert: the settings follow the suffix of the name, and
\* ImageMagick writes the format of the output name's suffix, which is
\* the suffix of the original name.
MagickChoice(suffix, quality) ==
    IF LowerStripped(suffix) \in {"jpg", "jpeg"}
      THEN [class |-> "jpeg", quality |-> quality, level |-> 0,
            out |-> FormatOfSuffix(suffix)]
    ELSE IF LowerStripped(suffix) = "png"
      THEN [class |-> "png", quality |-> 100, level |-> 9,
            out |-> FormatOfSuffix(suffix)]
    ELSE [class |-> "other", quality |-> 0, level |-> 0,
          out |-> FormatOfSuffix(suffix)]

PolicyInit ==
    /\ engine \in {e \in Engines : e.kind = "Pillow" /\ e.max_size = 1}
    /\ stats = ZeroStats
    /\ pc = "idle"
    /\ file = NoFile
    /\ pre = NoFile
    /\ entry = NoEntry
    /\ tmp = NoTmp
    /\ loc = NoLoc
    /\ prestats = ZeroStats
    /\ steps = <<>>
    /\ result = NoResult
    /\ ncalls = 0
    /\ nreturned = 0
    /\ twin = NoTwin
    /\ fac = NoFac
    /\ cfg = NoCfg
    /\ cat = NoCat
    /\ pol \in [pc : {"file"}, content : ContentFormats, suffix : Suffixes,
                pillow : {NoChoice}, magick : {NoChoice}]
    /\ run = NoRun

\* Everything but pol.
nonpolicy == <<engine, stats, pc, file, pre, entry, tmp, loc, prestats,
               steps, result, ncalls, nreturned, twin, fac, cfg, cat, run>>

\* The encode step of Converter on the file.
PillowEncode ==
    /\ pol.pc = "file"
    /\ pol.pillow = NoChoice
    /\ pol' = [pol EXCEPT !.pillow = PillowChoice(pol.content, engine.quality)]
    /\ UNCHANGED nonpolicy

\* The encode step of Converter2 on the same file.
MagickEncode ==
    /\ pol.pc = "file"
    /\ pol.magick = NoChoice
    /\ pol' = [pol EXCEPT !.magick = MagickChoice(pol.suffix, engine.quality)]
    /\ UNCHANGED nonpolicy

PolicyNext ==
    \/ PillowEncode
    \/ MagickEncode

SpecPolicy == PolicyInit /\ [][PolicyNext]_vars

(* ------------------------------- Config ------------------------------- *)
(* A specification of the Config object: setters and load_from_file are    *)
(* called on it ConfigOps times, then App.run constructs the engine from   *)
(* it.  A value carries its Python type: t is "str", "int", "bool" or      *)
(* "list"; n is the number an int or bool stands for (True is 1), s the    *)
(* text of a str.                                                          *)

PyStr(x) == [t |-> "str", n |-> 0, s |-> x]
PyInt(k) == [t |-> "int", n |-> k, s |-> ""]
PyBool(b) == [t |-> "bool", n |-> (IF b THEN 1 ELSE 0), s |-> ""]
PyList == [t |-> "list", n |-> 0, s |-> ""]
\* The key is not in the mapping.
Absent == [t |-> "absent", n |-> 0, s |-> ""]

\* Faulty variant: any value that is present passes.
IsInstance_Any(val, type) == val.t # "absent"

\* isinstance(val, type): bool is a subclass of int.
IsInstance(val, type) ==
    \/ val.t = type
    \/ (type = "int" /\ val.t = "bool")

\* Values a YAML mapping may give the three keys.
WrkDirValues == {Absent, PyStr("/srv/photos"), PyInt(12345), PyList}
MaxSizeValues == {Absent, PyInt(3000), PyInt(0), PyInt(-1), PyStr("invalid"), PyBool(TRUE)}
QualityValues == {Absent, PyInt(80), PyInt(101), PyInt(0), PyStr("high"), PyList}

\* Contents of the configuration file: no file, an empty document, text
\* that is not YAML, a document that is a sequence or a number instead of
\* a mapping, and mappings.
Documents ==
    [kind : {"missing", "empty", "unparsable", "sequence", "number"},
     wrk_dir : {Absent}, max_size : {Absent}, quality : {Absent}]
    \cup [kind : {"mapping"}, wrk_dir : WrkDirValues,
          max_size : MaxSizeValues, quality : QualityValues]

\* The four settings of a Config.
Settings(c) ==
    [wrk_dir |-> c.wrk_dir, max_size |-> c.max_size, quality |-> c.quality,
     test_mode |-> c.test_mode]

\* Config.__init__
NewConfig ==
    [pc |-> "ready", wrk_dir |-> PyStr("/tmp"), max_size |-> PyInt(DefaultMaxSize),
     quality |-> PyInt(DefaultQuality), test_mode |-> FALSE,
     before |-> [wrk_dir |-> PyStr("/tmp"), max_size |-> PyInt(DefaultMaxSize),
                 quality |-> PyInt(DefaultQuality), test_mode |-> FALSE],
     doc |-> [kind |-> "none", wrk_dir |-> Absent, max_size |-> Absent,
              quality |-> Absent],
     last |-> "init", exc |-> "", ops |-> 0]

ConfigInit ==
    /\ engine = NoEngine
    /\ stats = ZeroStats
    /\ pc = "boot"
    /\ file = NoFile
    /\ pre = NoFile
    /\ entry = NoEntry
    /\ tmp = NoTmp
    /\ loc = NoLoc
    /\ prestats = ZeroStats
    /\ steps = <<>>
    /\ result = NoResult
    /\ ncalls = 0
    /\ nreturned = 0
    /\ twin = NoTwin
    /\ fac = NoFac
    /\ cfg = NewConfig
    /\ cat = NoCat
    /\ pol = NoPol
    /\ run = NoRun

\* Everything but cfg and the engine.
nonconfig == <<stats, pc, file, pre, entry, tmp, loc, prestats, steps,
               result, ncalls, nreturned, twin, fac, cat, pol, run>>

\* The setters: the value is stored as given.
Setter ==
    /\ cfg.pc = "ready"
    /\ cfg.ops < ConfigOps
    /\ \E c \in
          {[cfg EXCEPT !.wrk_dir = PyStr("/data")],
           [cfg EXCEPT !.max_size = PyInt(2)],
           [cfg EXCEPT !.max_size = PyInt(0)],
           [cfg EXCEPT !.quality = PyInt(50)],
           [cfg EXCEPT !.quality = PyInt(101)],
           [cfg EXCEPT !.test_mode = TRUE]} :
         cfg' = [c EXCEPT !.before = Settings(cfg), !.last = "set",
                          !.ops = @ + 1]
    /\ UNCHANGED <<engine, nonconfig>>

\* The three `if "key" in config_data and isinstance(...)` statements.
Loaded(c, doc) ==
    [c EXCEPT
       !.wrk_dir = IF IsInstance(doc.wrk_dir, "str") THEN doc.wrk_dir ELSE @,
       !.max_size = IF IsInstance(doc.max_size, "int") THEN doc.max_size ELSE @,
       !.quality = IF IsInstance(doc.quality, "int") THEN doc.quality ELSE @]

\* Config.load_from_file on a file with content doc.
LoadFromFile ==
    /\ cfg.pc = "ready"
    /\ cfg.ops < ConfigOps
    /\ \E doc \in Documents :
         LET c == [cfg EXCEPT !.before = Settings(cfg), !.doc = doc,
                              !.last = "load", !.ops = @ + 1]
         IN cfg' =
              CASE doc.kind \in {"missing", "empty"} -> c
                [] doc.kind = "unparsable" ->
                      [c EXCEPT !.pc = "raised", !.exc = "YAMLError"]
                [] doc.kind = "number" ->
                      \* "wrk_dir" in 42
                      [c EXCEPT !.pc = "raised", !.exc = "TypeError"]
                [] doc.kind = "sequence" -> c
                [] doc.kind = "mapping" -> Loaded(c, doc)
    /\ UNCHANGED <<engine, nonconfig>>

\* App.run: Converter(max_size=config.max_size, quality=config.quality,
\* test_mode=config.test_mode), after the configuration has been loaded.
ConfigConstruct ==
    /\ cfg.pc = "ready"
    /\ cfg.last = "load"
    /\ engine = NoEngine
    /\ engine' = [kind |-> "Pillow", max_size |-> cfg.max_size.n,
                  quality |-> cfg.quality.n, test_mode |-> cfg.test_mode]
    /\ cfg' = [cfg EXCEPT !.pc = "running"]
    /\ UNCHANGED nonconfig

ConfigNext ==
    \/ Setter
    \/ LoadFromFile
    \/ ConfigConstruct

SpecConfig == ConfigInit /\ [][ConfigNext]_vars

(* ---------------------- ConversionStats on its own -------------------- *)
(* A fourth specification: a ConversionStats object is given StatsOps      *)
(* add_processed / add_skipped calls with arbitrary sizes (0 included),    *)
(* as its unit tests do.                                                   *)

\* ConversionStats.total_files
total_files(s) == s.processed_files + s.skipped_files

\* ConversionStats.saved_bytes
saved_bytes(s) == s.size_before - s.size_after

\* The float (1 - a / b) * 100, kept as the exact fraction num / den; the
\* division raises ZeroDivisionError when b is 0.
Percent(a, b) ==
    IF b = 0 THEN [err |-> "ZeroDivisionError", num |-> 0, den |-> 1]
    ELSE [err |-> "", num |-> (b - a) * 100, den |-> b]

\* Faulty variant: no test for size_before == 0.
compression_ratio_Unguarded(s) == Percent(s.size_after, s.size_before)

\* ConversionStats.compression_ratio
compression_ratio(s) ==
    IF s.size_before = 0 THEN [err |-> "", num |-> 0, den |-> 1]
    ELSE Percent(s.size_after, s.size_before)

\* str(stats), as print_report prints it: the derived values it shows.
Report(s) ==
    [total |-> total_files(s), processed |-> s.processed_files,
     skipped |-> s.skipped_files, saved |-> saved_bytes(s),
     ratio |-> compression_ratio(s)]

StatsInit ==
    /\ engine = NoEngine
    /\ stats = ZeroStats
    /\ pc = "boot"
    /\ file = NoFile
    /\ pre = NoFile
    /\ entry = NoEntry
    /\ tmp = NoTmp
    /\ loc = NoLoc
    /\ prestats = ZeroStats
    /\ steps = <<>>
    /\ result = NoResult
    /\ ncalls = 0
    /\ nreturned = 0
    /\ twin = NoTwin
    /\ fac = NoFac
    /\ AuxIdle

\* stats.add_processed(size_before, size_after)
StatsAddProcessed ==
    /\ total_files(stats) < StatsOps
    /\ \E a, b \in 0..MaxBytes :
         /\ prestats' = stats
         /\ stats' = add_processed(stats, a, b)
    /\ UNCHANGED <<engine, pc, file, pre, entry, tmp, loc, steps, result,
                   ncalls, nreturned, twin, fac, aux>>

\* stats.add_skipped()
StatsAddSkipped ==
    /\ total_files(stats) < StatsOps
    /\ prestats' = stats
    /\ stats' = add_skipped(stats)
    /\ UNCHANGED <<engine, pc, file, pre, entry, tmp, loc, steps, result,
                   ncalls, nreturned, twin, fac, aux>>

StatsNext ==
    \/ StatsAddProcessed
    \/ StatsAddSkipped

SpecStats == StatsInit /\ [][StatsNext]_vars

(* ============================== the claims ============================= *)
\* A convert() call has ended (returned or raised) and no other has begun.
CallEnded == pc = "ended"
Returned(v) == CallEnded /\ result.kind = "return" /\ result.value = v
Raised == CallEnded /\ result.kind = "raise"
\* The call has created a temporary file at some point.
TmpCreated == \E i \in 1..Len(steps) : steps[i] = "mktemp"
Probed == \E i \in 1..Len(steps) : steps[i] = "probe"
LongestSide(f) == Max(f.w, f.h)
\* The statistics differ from those at the start of the call by one skip.
OneSkipCounted ==
    /\ stats.skipped_files = prestats.skipped_files + 1
    /\ stats.processed_files = prestats.processed_files
    /\ stats.size_before = prestats.size_before
    /\ stats.size_after = prestats.size_after
\* The statistics differ from those at the start of the call by one
\* processed file with the given sizes.
OneProcessedCounted(before, after) ==
    /\ stats.processed_files = prestats.processed_files + 1
    /\ stats.skipped_files = prestats.skipped_files
    /\ stats.size_before = prestats.size_before + before
    /\ stats.size_after = prestats.size_after + after

\* C1 as stated: for EVERY entry whose image has longest side <= max_size,
\* in either engine and mode, convert returns False, the file is not
\* written, no temporary file is created and only skipped_files grows (by 1).
C1_Original ==
    (CallEnded /\ pre.decodable /\ LongestSide(pre) <= engine.max_size)
        => /\ Returned(FALSE)
           /\ file = pre
           /\ ~TmpCreated
           /\ OneSkipCounted

\* C1 as amended: for every readable and writable entry whose dimension
\* probe succeeds and reports a longest side <= max_size (the boundary
\* included), in either engine and mode, convert returns False, the target
\* is not written, no temporary file is created, skipped_files grows by
\* exactly 1 and the other three statistics are unchanged.
C1_SkipWithinBounds ==
    (CallEnded /\ pre.readable /\ pre.writable /\ pre.decodable
        /\ LongestSide(pre) <= engine.max_size)
        => /\ Returned(FALSE)
           /\ file = pre
           /\ ~TmpCreated /\ ~tmp.exists
           /\ OneSkipCounted

\* C1 witness: a file exactly at the boundary has been skipped by a live
\* ImageMagick engine.
C1_Witness ==
    /\ Returned(FALSE)
    /\ LongestSide(pre) = engine.max_size
    /\ engine.kind = "ImageMagick" /\ ~engine.test_mode
    /\ stats.skipped_files = 1 /\ file = pre

\* C2 as stated: for every readable, writable, decodable image with longest
\* side > max_size, in either engine and mode (and with no step failing for
\* a reason outside the program), convert returns True, processed_files
\* grows by 1, skipped_files is unchanged, size_before grows by the entry's
\* recorded size and size_after by the size of the encoded output.
C2_Original ==
    (CallEnded /\ pre.readable /\ pre.writable /\ pre.decodable
        /\ LongestSide(pre) > engine.max_size /\ ~loc.fault)
        => /\ Returned(TRUE)
           /\ OneProcessedCounted(entry.size, pre.out_size)

\* C3: if the encode step fails, the call raises, the original file is as
\* it was before the call, and the temporary file the call created is gone.
C3_EncodeFailureIsClean ==
    (CallEnded /\ result.at = "encode")
        => /\ Raised
           /\ TmpCreated
           /\ ~tmp.exists
           /\ file = pre

\* C3 witness: an encode failure has happened in a live engine.
C3_Witness ==
    /\ Raised /\ result.at = "encode" /\ ~engine.test_mode
    /\ TmpCreated /\ ~tmp.exists

\* C4 as stated: in non-test mode the target holds the complete original
\* or the complete new content in every state, and when the replace step
\* fails the temporary file is deleted, the call raises and the original
\* is untouched.
C4_Original ==
    ~engine.test_mode
        => /\ file.content # "partial"
           /\ (CallEnded /\ result.at = "replace")
                 => (Raised /\ ~tmp.exists /\ file = pre)

\* C5: in test mode the target file (content, size, mtime, mode bits,
\* ownership) is in every state what it was when the call began, whatever
\* the outcome, and when the call has ended no temporary file exists.
C5_TestModeLeavesFile ==
    engine.test_mode
        => /\ file = pre
           /\ CallEnded => ~tmp.exists

\* C5 witness: a test-mode call that created a temporary file, measured
\* it and returned True.
C5_Witness ==
    /\ engine.test_mode /\ Returned(TRUE) /\ TmpCreated
    /\ loc.size_after = pre.out_size

\* Both runs of the comparison are complete.
TwinDone ==
    /\ twin.phase = 2
    /\ Len(twin.results) = TwinCalls
    /\ Len(twin.saved) = TwinCalls
NoTwinFault ==
    \A i \in 1..TwinCalls : ~twin.saved[i].fault /\ ~twin.results[i].fault

\* C6 as stated: the same entries through a test-mode engine and through an
\* identically configured live engine (same initial files, no step failing
\* for a reason outside the program) give the same return value for every
\* call and the same final statistics.
C6_Original ==
    (TwinDone /\ NoTwinFault)
        => /\ \A i \in 1..TwinCalls :
                /\ twin.saved[i].kind = twin.results[i].kind
                /\ twin.saved[i].value = twin.results[i].value
           /\ twin.savedstats = stats

\* C7: the steps of a call begin check_read, check_write, probe in that
\* order; when read or write access is missing the call raises
\* PermissionError from the access check (the read check when read access
\* is missing), without a probe, without a temporary file, with the file
\* and the statistics as they were.
C7_AccessChecksFirst ==
    /\ \A i \in 1..Len(steps) :
          /\ steps[i] = "check_read" => i = 1
          /\ steps[i] = "check_write" => (i = 2 /\ pre.readable)
          /\ steps[i] = "probe" => (i = 3 /\ pre.readable /\ pre.writable)
          /\ i = 1 => steps[i] = "check_read"
    /\ (CallEnded /\ (~pre.readable \/ ~pre.writable))
          => /\ Raised /\ result.exc = "PermissionError"
             /\ result.at = (IF ~pre.readable THEN "check_read" ELSE "check_write")
             /\ ~Probed /\ ~TmpCreated /\ ~tmp.exists
             /\ file = pre
             /\ stats = prestats

\* C7 witness: a readable file without write access has been refused.
C7_Witness ==
    /\ Raised /\ pre.readable /\ ~pre.writable
    /\ result.at = "check_write" /\ steps = <<"check_read", "check_write">>

\* C8 as stated: after a non-test-mode convert that replaced the content,
\* the file's permission bits equal the bits recorded in the entry.
C8_Original ==
    (CallEnded /\ ~engine.test_mode /\ file.content = "new")
        => /\ file.st_mode % 512 = entry.permissions
           /\ entry.permissions = pre.st_mode % 512

\* C9 as stated: in non-test mode a call that reached the ownership step
\* returns True and counts the file as processed, whatever that step did.
C9_Original ==
    (CallEnded /\ \E i \in 1..Len(steps) : steps[i] = "chown")
        => /\ Returned(TRUE)
           /\ stats.processed_files = prestats.processed_files + 1

\* C10 as stated: every call changes the statistics exactly once, so after
\* n calls processed_files + skipped_files = n.
C10_Original ==
    /\ pc = "idle" => stats.processed_files + stats.skipped_files = ncalls
    /\ CallEnded =>
          (stats.processed_files + stats.skipped_files
              = prestats.processed_files + prestats.skipped_files + 1)

\* C10 as amended: every call that returns changes the statistics exactly
\* once (add_processed when it returns True, add_skipped when it returns
\* False, never both), and a call that raises changes them not at all;
\* hence after any n calls processed_files + skipped_files is the number of
\* calls that returned, which is at most n.
C10_OncePerReturnedCall ==
    /\ pc = "idle" =>
          /\ stats.processed_files + stats.skipped_files = nreturned
          /\ nreturned <= ncalls
    /\ Returned(TRUE) => OneProcessedCounted(loc.size_before, loc.size_after)
    /\ Returned(FALSE) => OneSkipCounted
    /\ Raised => stats = prestats

\* C10 witness: two calls, one raised and one returned.
C10_Witness ==
    /\ CallEnded /\ ncalls = 2 /\ nreturned = 1
    /\ stats.processed_files + stats.skipped_files = 1
\* C11: whenever convert raises, whatever the step that failed, the four
\* statistics are what they were before the call, and the caller's loop
\* can go on to the next entry.
C11_RaiseLeavesStats ==
    Raised
        => /\ stats.processed_files = prestats.processed_files
           /\ stats.skipped_files = prestats.skipped_files
           /\ stats.size_before = prestats.size_before
           /\ stats.size_after = prestats.size_after
           /\ ENABLED NextEntry

\* C11 witness: a first call raised, the caller went on, and the second
\* call raised in the ownership step after the file had been replaced.
C11_Witness ==
    /\ Raised /\ result.at = "chown" /\ file.content = "new"
    /\ ncalls = 2 /\ nreturned = 0 /\ stats = ZeroStats

\* The call ended in the decode (probe), resize or encode step.
DecodeResizeEncodeEnded ==
    CallEnded /\ result.at \in {"probe", "resize", "encode"}

\* C12 as stated: a failure of decode, resize or encode is signalled as
\* RuntimeError in both engines, with the original file untouched.
C12_Original ==
    DecodeResizeEncodeEnded
        => /\ Raised /\ result.exc = "RuntimeError"
           /\ file = pre

\* C12 as amended: a failure of decode, resize or encode makes convert
\* raise with the original file untouched; Converter2 signals it as
\* RuntimeError, Converter raises an exception of the class of the
\* underlying failure (UnidentifiedImageError for an unreadable image,
\* ValueError for an impossible size, OSError from the encoder).
C12_FailureClassPerEngine ==
    DecodeResizeEncodeEnded
        => /\ Raised
           /\ file = pre
           /\ engine.kind = "ImageMagick" => result.exc = "RuntimeError"
           /\ engine.kind = "Pillow" =>
                 result.exc = (CASE result.at = "probe" -> "UnidentifiedImageError"
                                 [] result.at = "resize" -> "ValueError"
                                 [] result.at = "encode" -> "OSError")

\* C12 witness: the Pillow engine failed in the resize step with an
\* exception that is not RuntimeError.
C12_Witness ==
    /\ Raised /\ engine.kind = "Pillow" /\ result.at = "resize"
    /\ result.exc = "ValueError" /\ file = pre

\* The Pillow engine has computed the target dimensions of this call.
PillowSized ==
    /\ engine.kind = "Pillow"
    /\ \E i \in 1..Len(steps) : steps[i] = "resize"
Min(a, b) == IF a <= b THEN a ELSE b
\* The computed side that is not the longest one.
OtherNew == IF pre.w > pre.h THEN loc.new_height ELSE loc.new_width
LongestNew == IF pre.w > pre.h THEN loc.new_width ELSE loc.new_height

\* C13 as stated: the Pillow engine's target dimensions have longest side
\* exactly max_size and the other side equal to other * max_size / longest
\* rounded to the nearest integer (at most half a pixel from the exact value).
C13_Original ==
    PillowSized
        => /\ LongestNew = engine.max_size
           /\ LET exact2 == 2 * Min(pre.w, pre.h) * engine.max_size
                  got2 == 2 * OtherNew * LongestSide(pre)
              IN  /\ got2 - exact2 <= LongestSide(pre)
                  /\ exact2 - got2 <= LongestSide(pre)

\* C13 as amended: the Pillow engine's target dimensions have longest side
\* exactly max_size and the other side equal to other * max_size / longest
\* truncated to an integer (rounded down, possibly to 0).
C13_TruncatedSide ==
    PillowSized
        => /\ LongestNew = engine.max_size
           /\ OtherNew = (Min(pre.w, pre.h) * engine.max_size) \div LongestSide(pre)

\* C13 witness: 4x3 with max_size 2 has been resized to 2x1 (3 * 2 / 4 = 1.5).
C13_Witness ==
    /\ Returned(TRUE) /\ engine.kind = "Pillow"
    /\ pre.w = 4 /\ pre.h = 3 /\ engine.max_size = 2
    /\ loc.new_width = 2 /\ loc.new_height = 1

\* C14: the target dimensions the Pillow engine computes never upscale
\* (W' <= W, H' <= H, longest side <= max_size), the shorter side is less
\* than one pixel from the exact proportional value, and the orientation is
\* kept (H > W gives H' > W', W > H gives W' > H', W = H gives
\* W' = H' = max_size).
C14_NoUpscaleKeepsOrientation ==
    PillowSized
        => /\ loc.new_width <= pre.w /\ loc.new_height <= pre.h
           /\ Max(loc.new_width, loc.new_height) <= engine.max_size
           /\ LET exact == Min(pre.w, pre.h) * engine.max_size
                  got == OtherNew * LongestSide(pre)
              IN  got - exact < LongestSide(pre) /\ exact - got < LongestSide(pre)
           /\ pre.h > pre.w => loc.new_height > loc.new_width
           /\ pre.w > pre.h => loc.new_width > loc.new_height
           /\ pre.w = pre.h => (loc.new_width = engine.max_size
                                  /\ loc.new_height = engine.max_size)

\* C14 witness: a portrait image has been replaced by a smaller portrait
\* image.
C14_Witness ==
    /\ Returned(TRUE) /\ engine.kind = "Pillow" /\ ~engine.test_mode
    /\ pre.h > pre.w /\ file.h > file.w
    /\ file.w = loc.new_width /\ file.h = loc.new_height /\ file.h < pre.h

\* The current call was made on a file that an earlier non-test-mode call
\* of this engine had replaced.
CalledAgain == pre.content = "new"

\* C15 as stated: after a non-test-mode convert has returned True for a
\* file, convert on the same file with the same engine returns False,
\* leaves the file unchanged and increments only skipped_files.
C15_Original ==
    (CallEnded /\ CalledAgain)
        => /\ Returned(FALSE)
           /\ file = pre
           /\ OneSkipCounted

\* C15 as amended: after a non-test-mode convert has returned True for a
\* file, convert on the same file with the same engine, the process still
\* having read and write access to the replaced file, returns False, leaves
\* the file unchanged and increments only skipped_files; without that
\* access it raises PermissionError and counts nothing.
C15_SecondCallSkips ==
    (CallEnded /\ CalledAgain)
        => /\ file = pre
           /\ (pre.readable /\ pre.writable)
                 => (Returned(FALSE) /\ OneSkipCounted)
           /\ ~(pre.readable /\ pre.writable)
                 => (Raised /\ result.exc = "PermissionError" /\ stats = prestats)

\* C15 witness: the second call on a replaced file has skipped it.
C15_Witness ==
    /\ Returned(FALSE) /\ CalledAgain /\ file = pre
    /\ ncalls = 2 /\ stats.processed_files = 1 /\ stats.skipped_files = 1
\* Start-up by way of create_converter has come to an end: an engine was
\* returned, an exception was raised, or the import failed.
StartupEnded == fac.pc \in {"done", "raised", "fatal"}
ViaFactory == fac.via = "factory"
MagickAvailable == fac.env.convert # "missing" /\ fac.env.identify # "missing"
Preferred == IF fac.args.prefer_imagemagick THEN "ImageMagick" ELSE "Pillow"
Other == IF fac.args.prefer_imagemagick THEN "Pillow" ELSE "ImageMagick"

\* C16: create_converter constructs the preferred engine first (Pillow
\* unless prefer_imagemagick); if that succeeds it is returned and the
\* other engine is never constructed; if it fails with a recognized error
\* the other engine is constructed, once; no engine is attempted twice.
C16_TwoWayFallback ==
    ViaFactory
        => /\ Len(fac.attempts) <= 2
           /\ Len(fac.attempts) >= 1 => fac.attempts[1] = Preferred
           /\ Len(fac.attempts) = 2 =>
                 /\ fac.attempts[2] = Other
                 /\ fac.attempts[2] # fac.attempts[1]
                 /\ Len(fac.errors) >= 1
                 /\ fac.errors[1].engine = Preferred
                 /\ fac.errors[1].cause \in {"ImportError", "RuntimeError"}
           /\ fac.pc = "done" =>
                 /\ Len(fac.attempts) >= 1
                 /\ engine.kind = fac.attempts[Len(fac.attempts)]
                 /\ Len(fac.errors) = Len(fac.attempts) - 1

\* C16 witness: ImageMagick was preferred and unavailable, and the Pillow
\* engine was returned as the fallback.
C16_Witness ==
    /\ ViaFactory /\ fac.pc = "done"
    /\ fac.attempts = <<"ImageMagick", "Pillow">>
    /\ Len(fac.errors) = 1 /\ engine.kind = "Pillow"

\* C17: whichever engine create_converter returns, its max_size, quality
\* and test_mode equal the factory's arguments, its statistics start at
\* zero, and no later step (of any convert call) changes the three values.
C17_ConfigurationAsGiven ==
    /\ []((ViaFactory /\ fac.pc = "done")
            => /\ engine.kind \in Kinds
               /\ engine.max_size = fac.args.max_size
               /\ engine.quality = fac.args.quality
               /\ engine.test_mode = fac.args.test_mode
               /\ (ncalls = 0 /\ pc = "idle") => stats = ZeroStats)
    /\ [][(ViaFactory /\ fac.pc = "done")
            => (engine' = engine /\ fac'.args = fac.args)]_vars

\* C17 witness: the fallback engine, in test mode as asked, has processed
\* a file.
C17_Witness ==
    /\ ViaFactory /\ fac.pc = "done" /\ Len(fac.attempts) = 2
    /\ fac.args.test_mode /\ engine.test_mode
    /\ Returned(TRUE) /\ stats.processed_files = 1

\* C18 as stated: when both engines cannot be constructed (the PIL package
\* is not installed and an ImageMagick tool is missing), create_converter
\* returns no engine and raises one RuntimeError naming both attempted
\* engines with their causes, the first choice before the second.
C18_Original ==
    (ViaFactory /\ StartupEnded /\ ~fac.env.pil /\ ~MagickAvailable)
        => /\ engine = NoEngine
           /\ fac.pc = "raised" /\ fac.exc = "RuntimeError"
           /\ Len(fac.errors) = 2
           /\ fac.errors[1].engine = Preferred
           /\ fac.errors[2].engine = Other

\* C19 as stated: start-up is fatal only if both engines are unavailable:
\* with PIL missing and ImageMagick present an ImageMagick engine is
\* obtained, with ImageMagick missing and PIL present a Pillow engine.
C19_Original ==
    StartupEnded
        => /\ (~fac.env.pil /\ MagickAvailable)
                 => (fac.pc = "done" /\ engine.kind = "ImageMagick")
           /\ (fac.env.pil /\ ~MagickAvailable)
                 => (fac.pc = "done" /\ engine.kind = "Pillow")
           /\ fac.pc # "done" => (~fac.env.pil /\ ~MagickAvailable)

\* Converter2.__init__ is running / has run.
MagickConstructing == fac.pc \in {"probe_convert", "probe_identify", "init"}
MagickTried == \E i \in 1..Len(fac.attempts) : fac.attempts[i] = "ImageMagick"
MagickRefused ==
    \E i \in 1..Len(fac.errors) :
        fac.errors[i].engine = "ImageMagick" /\ fac.errors[i].cause = "RuntimeError"

\* C20: constructing the external-tool engine runs the probe (convert, then
\* identify) before any engine state exists; if either executable is
\* missing the construction fails with the RuntimeError the factory
\* recognises (and goes on from), otherwise it succeeds, a non-zero exit of
\* the version query included.
C20_ProbeBeforeState ==
    ViaFactory
        => /\ MagickConstructing => engine = NoEngine
           /\ fac.pc = "init" => fac.probes = <<"convert", "identify">>
           /\ engine.kind = "ImageMagick" => fac.probes = <<"convert", "identify">>
           /\ (MagickTried /\ ~MagickConstructing) =>
                 IF MagickAvailable
                   THEN /\ engine.kind = "ImageMagick"
                        /\ fac.pc = "done"
                        /\ fac.errors = <<>>
                   ELSE /\ engine.kind # "ImageMagick"
                        /\ MagickRefused
                        /\ fac.exc # "RuntimeError" => fac.pc \in {"attempt", "done"}

\* C20 witness: both version queries exited non-zero and the ImageMagick
\* engine was constructed.
C20_Witness ==
    /\ ViaFactory /\ fac.pc = "done" /\ engine.kind = "ImageMagick"
    /\ fac.env.convert = "nonzero" /\ fac.env.identify = "nonzero"
    /\ fac.probes = <<"convert", "identify">>
\* Position of the first occurrence of step s in the current call (0: none).
StepIndex(s) ==
    IF \E i \in 1..Len(steps) : steps[i] = s
      THEN CHOOSE i \in 1..Len(steps) :
             steps[i] = s /\ \A j \in 1..(i - 1) : steps[j] # s
      ELSE 0
Did(s) == StepIndex(s) > 0

\* C26: within one convert call the temporary file is created, then the
\* image is encoded into it, then its size is read, then (non-test mode
\* only) the target is replaced, each step at most once; the target differs
\* from what it was at the start of the call only after the encode has
\* succeeded and the size has been read.
C26_ReplaceAfterEncode ==
    /\ \A i, j \in 1..Len(steps) :
          (steps[i] = steps[j]
             /\ steps[i] \in {"mktemp", "encode", "stat", "replace"}) => i = j
    /\ Did("encode") => (Did("mktemp") /\ StepIndex("mktemp") = StepIndex("encode") - 1)
    /\ Did("stat") => (Did("encode") /\ StepIndex("encode") = StepIndex("stat") - 1)
    /\ Did("replace") =>
          /\ ~engine.test_mode
          /\ Did("stat") /\ StepIndex("stat") = StepIndex("replace") - 1
          /\ loc.size_after = pre.out_size
    /\ Did("stat") => ~(Raised /\ result.at = "encode")
    /\ file # pre => Did("replace")

\* C26 witness: a live call has replaced the target after mktemp, encode
\* and stat, in this order.
C26_Witness ==
    /\ Returned(TRUE) /\ ~engine.test_mode /\ file.content = "new"
    /\ StepIndex("mktemp") > 0
    /\ StepIndex("encode") = StepIndex("mktemp") + 1
    /\ StepIndex("stat") = StepIndex("mktemp") + 2
    /\ StepIndex("replace") = StepIndex("mktemp") + 3

\* C28 as stated: whenever a non-test-mode call has changed the on-disk
\* content of the target, that call returns True and counts the file as
\* processed; no call that has replaced the file raises or leaves the
\* statistics without it.
C28_Original ==
    (CallEnded /\ ~engine.test_mode /\ file.content # pre.content)
        => /\ Returned(TRUE)
           /\ stats.processed_files = prestats.processed_files + 1

\* C30 as stated: for every image with max(W, H) > max_size both target
\* dimensions the Pillow engine computes are at least 1.
C30_Original ==
    PillowSized => (loc.new_width >= 1 /\ loc.new_height >= 1)
\* C22: in every state of a ConversionStats, total_files is processed_files
\* + skipped_files, saved_bytes is size_before - size_after (negative when
\* the output grew), and compression_ratio is computed without a division
\* error, being 0 whenever size_before is 0 whatever size_after is, and
\* (1 - size_after / size_before) * 100 otherwise.
C22_DerivedValues ==
    LET r == Report(stats) IN
    /\ r.total = stats.processed_files + stats.skipped_files
    /\ r.total = r.processed + r.skipped
    /\ r.saved = stats.size_before - stats.size_after
    /\ r.ratio.err = ""
    /\ stats.size_before = 0 => r.ratio.num = 0
    /\ stats.size_before > 0 =>
          r.ratio.num * stats.size_before
              = (stats.size_before - stats.size_after) * 100 * r.ratio.den

\* C22 witness: size_before is 0 and size_after is not; the ratio is 0 and
\* the saved bytes are negative.
C22_Witness ==
    /\ stats.size_before = 0 /\ stats.size_after > 0
    /\ stats.processed_files = 2 /\ stats.skipped_files = 1
    /\ total_files(stats) = 3 /\ saved_bytes(stats) < 0
    /\ compression_ratio(stats).num = 0
\* Both engines have been through the same entries.
PairDone ==
    /\ twin.phase = 4
    /\ Len(twin.results) = PairCalls
    /\ Len(twin.saved) = PairCalls
NoPairFault ==
    \A i \in 1..PairCalls : ~twin.saved[i].fault /\ ~twin.results[i].fault

\* C29 as stated: for the same entry, the same initial file and the same
\* configuration (no step failing for a reason outside the program),
\* Converter and Converter2 both return the same value or both raise, make
\* the same change to their statistics and leave the file in the same state.
C29_Original ==
    (PairDone /\ NoPairFault)
        => \A i \in 1..PairCalls :
              /\ twin.saved[i].kind = twin.results[i].kind
              /\ twin.saved[i].value = twin.results[i].value
              /\ twin.saved[i].stats = twin.results[i].stats
              /\ twin.saved[i].file = twin.results[i].file
\* The last operation on the Config was load_from_file.
JustLoaded == cfg.pc \in {"ready", "raised"} /\ cfg.last = "load"
\* The file gives the key a value of the setting's type: a string for
\* wrk_dir, an integer for max_size and quality (in Python True and False
\* are integers too).
Provides(key, type) ==
    /\ cfg.doc.kind = "mapping"
    /\ cfg.doc[key].t \in (IF type = "str" THEN {"str"} ELSE {"int", "bool"})

\* C24: after load_from_file, a setting whose key the file gives with a
\* value of the setting's type has that value, every other setting has the
\* value it had before the call, a missing or empty file changes nothing,
\* content that cannot be parsed raises YAMLError (with nothing changed),
\* and test_mode is as it was.
C24_LoadFrame ==
    JustLoaded =>
        /\ cfg.wrk_dir = IF Provides("wrk_dir", "str")
                            THEN cfg.doc.wrk_dir ELSE cfg.before.wrk_dir
        /\ cfg.max_size = IF Provides("max_size", "int")
                             THEN cfg.doc.max_size ELSE cfg.before.max_size
        /\ cfg.quality = IF Provides("quality", "int")
                            THEN cfg.doc.quality ELSE cfg.before.quality
        /\ cfg.test_mode = cfg.before.test_mode
        /\ cfg.doc.kind \in {"missing", "empty"} =>
              (Settings(cfg) = cfg.before /\ cfg.pc = "ready")
        /\ cfg.doc.kind = "unparsable" =>
              (cfg.pc = "raised" /\ cfg.exc = "YAMLError"
               /\ Settings(cfg) = cfg.before)
        /\ cfg.pc = "raised" => cfg.doc.kind \in {"unparsable", "number"}

\* C24 witness: a load that took quality from the file, ignored a wrk_dir
\* and a max_size of the wrong type, and kept a max_size and a test_mode
\* set before the call.
C24_Witness ==
    /\ JustLoaded /\ cfg.pc = "ready"
    /\ cfg.doc.kind = "mapping"
    /\ cfg.doc.wrk_dir = PyInt(12345) /\ cfg.doc.max_size = PyStr("invalid")
    /\ cfg.doc.quality = PyInt(80)
    /\ cfg.quality = PyInt(80) /\ cfg.before.quality = PyInt(DefaultQuality)
    /\ cfg.wrk_dir = PyStr("/tmp") /\ cfg.max_size = PyInt(2)

\* C25 as stated: an engine that exists runs with a max_size of at least 1
\* and a quality in 1..100.
C25_Original ==
    engine.kind # "none" =>
        /\ engine.max_size >= 1
        /\ engine.quality \in 1..100
\* C23 as stated: for every file, whatever its suffix and the format of its
\* content, both engines choose the same class of encoder settings and
\* write the format the content had.
C23_Original ==
    (pol.pc = "file" /\ pol.pillow # NoChoice /\ pol.magick # NoChoice) =>
        /\ pol.pillow.class = pol.magick.class
        /\ pol.pillow.out = pol.content
        /\ pol.magick.out = pol.content
\* The entries whose name ends in one of the six extensions, in any case.
ImageNamed ==
    {i \in DOMAIN cat.tree :
        cat.tree[i].suffix \in {".jpg", ".PNG"}}
Paths(seq) == {seq[i].path : i \in DOMAIN seq}
\* What holds of the returned list whichever entries it is to contain:
\* each once, ascending by path, permissions the low nine mode bits.
ListedOnceInOrder ==
    /\ \A i, j \in DOMAIN cat.returned :
          i < j => cat.returned[i].path < cat.returned[j].path
    /\ \A i \in DOMAIN cat.returned :
          /\ cat.returned[i].permissions \in 0..511
          /\ cat.returned[i].permissions
                = cat.tree[cat.returned[i].path].st_mode % 512
\* A missing working directory raises FileNotFoundError, one that is a
\* file NotADirectoryError; a call that raises returns no list.
RootErrors ==
    /\ (cat.pc \notin {"start"} /\ cat.root = "missing")
          => (cat.pc = "raised" /\ cat.exc = "FileNotFoundError")
    /\ (cat.pc \notin {"start"} /\ cat.root = "file")
          => (cat.pc = "raised" /\ cat.exc = "NotADirectoryError")
    /\ cat.pc = "raised" => (cat.returned = <<>> /\ cat.root # "dir")
    /\ cat.pc # "returned" => cat.returned = <<>>

\* C27 as stated: the returned list holds exactly the regular files below
\* the working directory with an image extension (case-insensitive), each
\* once, ascending by path, permissions in 0..0o777; directories are not
\* listed; a missing root raises FileNotFoundError, a root that is a file
\* NotADirectoryError, with no list returned.
C27_Original ==
    /\ RootErrors
    /\ cat.pc = "returned" =>
          /\ Paths(cat.returned)
                = {i \in ImageNamed : cat.tree[i].kind = "file"}
          /\ ListedOnceInOrder

\* C27 amended: as above, but the list holds the image-named entries that
\* are regular files or symbolic links leading to regular files.
C27_FilesAndLinksToFiles ==
    /\ RootErrors
    /\ cat.pc = "returned" =>
          /\ Paths(cat.returned)
                = {i \in ImageNamed : cat.tree[i].kind \in {"file", "link"}}
          /\ \A i \in DOMAIN cat.tree :
                cat.tree[i].kind = "dir" => i \notin Paths(cat.returned)
          /\ ListedOnceInOrder

\* C27 witness: a list of two returned from a tree with an image-named
\* directory, a file inside it and a link, scanned in descending order.
C27_Witness ==
    /\ cat.pc = "returned"
    /\ Len(cat.tree) = 3
    /\ cat.tree[1].kind = "dir" /\ cat.tree[1].suffix = ".jpg"
    /\ cat.tree[2].kind = "file" /\ cat.tree[2].parent = 1
    /\ cat.tree[2].suffix = ".PNG" /\ cat.tree[2].st_mode = 32768 + 2048 + 493
    /\ cat.tree[3].kind = "link" /\ cat.tree[3].suffix = ".jpg"
    /\ Len(cat.image_files) = 2 /\ cat.image_files[1].path = 3
    /\ Len(cat.returned) = 2 /\ cat.returned[1].path = 2
    /\ cat.returned[1].permissions = 493
\* The calls made so far are for the entries 1, 2, ... in this order, at
\* most one of them not yet answered, and that one only while a call is
\* running.
OfferedInOrder ==
    /\ Len(run.offered) <= Len(run.images)
    /\ \A i \in DOMAIN run.offered : run.offered[i] = i
    /\ LET answered == Len(SelectSeq(run.printed,
                             LAMBDA m : m \notin {"found", "no images", "report"}))
       IN /\ run.pc = "call" => Len(run.offered) = answered + 1
          /\ run.pc # "call" => Len(run.offered) = answered
          /\ (pc \notin {"boot", "idle"}) => run.pc = "call"
\* The run is over: report printed after a call for every entry, exit 0.
RunCompleted ==
    /\ run.pc = "exited" /\ run.exit = 0
    /\ run.report
    /\ Len(run.offered) = Len(run.images)
    /\ run.printed[Len(run.printed)] = "report"

\* C21: with a non-empty list of images, the driver calls convert for the
\* entries in ascending path order, each once and one call at a time; the
\* report is printed only after the last entry; and every such run,
\* whatever the calls returned or raised, ends with the report printed and
\* exit code 0.
C21_EveryEntryThenReport ==
    /\ [](run.pc # "start" /\ run.images # <<>>
            => /\ OfferedInOrder
               /\ run.report => Len(run.offered) = Len(run.images)
               /\ run.exit \in {-1, 0})
    /\ ((run.pc = "loop") ~> RunCompleted)

\* C21 witness: a completed run of two entries whose first call raised an
\* error other than PermissionError and whose second was processed.
C21_Witness ==
    /\ RunCompleted
    /\ run.offered = <<1, 2>>
    /\ run.printed = <<"found", "error", "processed", "report">>
    /\ stats.processed_files = 1
=============================================================================
